---- MODULE Spec2Model ----
(***************************************************************************)
(* LAN scanner (src/app/page.tsx): the per-port probes (probeViaFetch,     *)
(* probeViaImage, probePort), the per-host scan (probeHost), the bounded   *)
(* scheduler (handleScan / schedule) and the result aggregation            *)
(* (setResults / setProgress / reset).                                      *)
(*                                                                         *)
(* JavaScript runs one macrotask at a time and drains the microtask queue  *)
(* after it, so every action of the session specification is one           *)
(* macrotask (a click, or the settlement of one network attempt) together  *)
(* with all the promise continuations it triggers.                         *)
(***************************************************************************)
EXTENDS Integers, Sequences, FiniteSets, TLC

\* ---------------------------------------------------------------- bounds
\* Number of addresses of the modelled network (10.0.0.9 ...).
MaxHosts == 3
\* Scaled-down value of `const concurrency = DEFAULT_CONCURRENCY` (24 in
\* page.tsx:29,240): the cap is kept below MaxHosts so that host lists longer
\* than the cap occur.
concurrency == 2
\* handleScan invocations per session.
MaxScans == 3
\* Latest instant (in clock ticks) of a network event of a single probe.
MaxNow == 3
\* Port probes per session: the host scans launched, over all its scans, times
\* the ports each of them has to probe.
MaxProbes == 4
\* Consecutive reset() calls the session's history counts.
MaxResets == 2

\* ------------------------------------------------------------ strings
\* A string is a sequence of one-character strings.
DigitChars == <<"0", "1", "2", "3", "4", "5", "6", "7", "8", "9">>

IsDigit(c) == \E i \in 1..10 : DigitChars[i] = c

DigitValue(c) == (CHOOSE i \in 1..10 : DigitChars[i] = c) - 1

\* UTF-16 code unit order of the characters of a dotted quad: "." (46) < "0" (48).
CharCode(c) == IF c = "." THEN 46 ELSE 48 + DigitValue(c)

RECURSIVE NumberToString(_)
NumberToString(n) ==
    IF n < 10 THEN <<DigitChars[n + 1]>>
    ELSE NumberToString(n \div 10) \o <<DigitChars[(n % 10) + 1]>>

\* The dotted-quad text of an address given by its four octets.
IpString(o) ==
    NumberToString(o[1]) \o <<".">> \o NumberToString(o[2]) \o <<".">> \o
    NumberToString(o[3]) \o <<".">> \o NumberToString(o[4])

\* Length of the run of digits at the head of s.
RECURSIVE DigitRun(_)
DigitRun(s) ==
    IF s = <<>> \/ ~IsDigit(Head(s)) THEN 0 ELSE 1 + DigitRun(Tail(s))

RECURSIVE DigitsValue(_, _)
DigitsValue(s, acc) ==
    IF s = <<>> THEN acc ELSE DigitsValue(Tail(s), acc * 10 + DigitValue(Head(s)))

Sign(n) == IF n < 0 THEN -1 ELSE IF n > 0 THEN 1 ELSE 0

\* (mutant) localeCompare without { numeric: true }: the strings are compared
\* character by character.
RECURSIVE LocaleComparePlain(_, _)
LocaleComparePlain(a, b) ==
    IF a = <<>> /\ b = <<>> THEN 0
    ELSE IF a = <<>> THEN -1
    ELSE IF b = <<>> THEN 1
    ELSE IF Head(a) # Head(b) THEN Sign(CharCode(Head(a)) - CharCode(Head(b)))
    ELSE LocaleComparePlain(Tail(a), Tail(b))

\* a.localeCompare(b, undefined, { numeric: true, sensitivity: 'base' }):
\* numeric collation compares maximal runs of digits by their value and the
\* other characters one by one; punctuation sorts before digits.
RECURSIVE LocaleCompareNumeric(_, _)
LocaleCompareNumeric(a, b) ==
    IF a = <<>> /\ b = <<>> THEN 0
    ELSE IF a = <<>> THEN -1
    ELSE IF b = <<>> THEN 1
    ELSE LET ra == DigitRun(a)
             rb == DigitRun(b)
         IN  IF ra > 0 /\ rb > 0
             THEN LET va == DigitsValue(SubSeq(a, 1, ra), 0)
                      vb == DigitsValue(SubSeq(b, 1, rb), 0)
                  IN  IF va # vb THEN Sign(va - vb)
                      ELSE LocaleCompareNumeric(SubSeq(a, ra + 1, Len(a)),
                                                SubSeq(b, rb + 1, Len(b)))
             ELSE IF ra > 0 THEN 1
             ELSE IF rb > 0 THEN -1
             ELSE IF Head(a) # Head(b)
                  THEN Sign(CharCode(Head(a)) - CharCode(Head(b)))
             ELSE LocaleCompareNumeric(Tail(a), Tail(b))

\* ------------------------------------------------------------- probes
\* `number | null`: <<>> is null (or an argument left out), <<t>> the number t.
Null == <<>>

Num(t) == <<t>>

IsNumber(v) == v # <<>>

\* The scaled-down choices of timeoutMs (page.tsx:187), and its default.
Timeouts == 1..(MaxNow - 1)

DEFAULT_TIMEOUT == MaxNow - 1

FetchKinds == {"resolve", "reject", "abort"}

ImageKinds == {"load", "error", "timer"}

\* error instanceof DOMException && error.name === 'AbortError'
IsAbortError(kind) == kind = "abort"

\* probeViaFetch: the value returned when the awaited fetch settles in the
\* given way, `elapsed` after `start`.
ProbeViaFetch(kind, elapsed) ==
    IF kind = "resolve"
    THEN [status |-> "responsive", latency |-> Num(elapsed)]
    ELSE [status |-> IF IsAbortError(kind) THEN "timeout" ELSE "timeout",
          latency |-> Null]

\* probeViaImage: the closure state of one call. `resolved` is the value the
\* promise was resolved with (<<>> while pending), `calls` counts resolve().
FreshImage ==
    [settled |-> FALSE, resolved |-> <<>>, calls |-> 0, timerArmed |-> TRUE]

\* finalize(status, latencyOverride) at `elapsed` after start.
Finalize(img, status, latencyOverride, elapsed) ==
    IF img.settled THEN img
    ELSE [img EXCEPT
            !.settled = TRUE,
            !.calls = @ + 1,
            !.resolved =
                IF @ # <<>> THEN @
                ELSE <<[status |-> status,
                        latency |-> IF IsNumber(latencyOverride) THEN latencyOverride
                                    ELSE IF status = "responsive" THEN Num(elapsed)
                                    ELSE Null]>>]

\* The setTimeout callback.
ImageOnTimer(img, elapsed) ==
    Finalize([img EXCEPT !.timerArmed = FALSE], "timeout", <<>>, elapsed)

\* img.onload
ImageOnLoad(img, elapsed) ==
    Finalize([img EXCEPT !.timerArmed = FALSE], "responsive", <<>>, elapsed)

\* (mutant) img.onerror that takes an error at the timeout itself for an answer.
ImageOnErrorInclusive(img, elapsed, timeoutMs) ==
    Finalize([img EXCEPT !.timerArmed = FALSE],
             IF elapsed <= timeoutMs THEN "responsive" ELSE "timeout",
             IF elapsed <= timeoutMs THEN Num(elapsed) ELSE Null,
             elapsed)

\* img.onerror
ImageOnError(img, elapsed, timeoutMs) ==
    Finalize([img EXCEPT !.timerArmed = FALSE],
             IF elapsed < timeoutMs THEN "responsive" ELSE "timeout",
             IF elapsed < timeoutMs THEN Num(elapsed) ELSE Null,
             elapsed)

\* probeViaFetch's call state: the value it returned (<<>> while it awaits
\* fetch) and whether its abort timer is still set.
FreshFetch == [returned |-> <<>>, timerArmed |-> TRUE]

\* The awaited fetch settles: both branches clearTimeout and return. The abort
\* timer's callback makes fetch reject with an AbortError.
FetchEvent(f, kind, elapsed) ==
    [returned |-> <<ProbeViaFetch(kind, elapsed)>>, timerArmed |-> FALSE]

ImageEvent(img, kind, elapsed, timeoutMs) ==
    IF kind = "load" THEN ImageOnLoad(img, elapsed)
    ELSE IF kind = "error" THEN ImageOnError(img, elapsed, timeoutMs)
    ELSE ImageOnTimer(img, elapsed)

\* probePort's choice of strategy: prefersFetch && typeof fetch !== 'undefined'
\* (fetch exists in every browser this page runs in).
PrefersFetch(scheme, pageProtocol) ==
    scheme = "https" \/ pageProtocol = "http:"

Method(descriptor, pageProtocol) ==
    IF PrefersFetch(descriptor.protocol, pageProtocol) THEN "fetch" ELSE "image"

\* The network events that can be the first to reach a probe: a timer set for
\* timeoutMs never runs before timeoutMs has elapsed.
CanSettle(method, kind, elapsed, timeoutMs) ==
    /\ kind \in (IF method = "fetch" THEN FetchKinds ELSE ImageKinds)
    /\ kind \in {"abort", "timer"} => elapsed >= timeoutMs

\* probePort: the PortScanResult of a probe whose first event is `kind`.
ProbePort(descriptor, pageProtocol, kind, elapsed, timeoutMs) ==
    LET method == Method(descriptor, pageProtocol)
        out == IF method = "fetch" THEN ProbeViaFetch(kind, elapsed)
               ELSE ImageEvent(FreshImage, kind, elapsed, timeoutMs).resolved[1]
    IN  [port |-> descriptor.port, protocol |-> descriptor.protocol,
         status |-> out.status, latencyMs |-> out.latency, method |-> method]

\* probeHost's catch branch: what it pushes for a descriptor whose probePort
\* promise rejected.
CatchResultResponsive(descriptor) ==
    [port |-> descriptor.port, protocol |-> descriptor.protocol,
     status |-> "responsive", latencyMs |-> Null, method |-> "image"]

CatchResult(descriptor) ==
    [port |-> descriptor.port, protocol |-> descriptor.protocol,
     status |-> "timeout", latencyMs |-> Null, method |-> "image"]

\* The awaited probePort promise rejects (an exception thrown inside probePort
\* or one of the two strategies, outside probeViaFetch's own try).
Throw == "throw"

\* try { portResult = await probePort(...) } catch { ... }: the entry probeHost
\* pushes for the descriptor.
TryProbePort(descriptor, pageProtocol, kind, elapsed, timeoutMs) ==
    IF kind = Throw THEN CatchResult(descriptor)
    ELSE ProbePort(descriptor, pageProtocol, kind, elapsed, timeoutMs)

\* ------------------------------------------------------ address ranges
\* lib/ipRange (cidrToRange, enumerateRange, isValidIPv4), after the
\* AddressRange contract: a dotted quad has four numeric segments in [0,255], a
\* CIDR text is a dotted quad, "/", and a prefix length in 0..32.

\* text.split(sep)
RECURSIVE SplitFrom(_, _, _)
SplitFrom(text, sep, segment) ==
    IF text = <<>> THEN <<segment>>
    ELSE IF Head(text) = sep THEN <<segment>> \o SplitFrom(Tail(text), sep, <<>>)
    ELSE SplitFrom(Tail(text), sep, Append(segment, Head(text)))

Split(text, sep) == SplitFrom(text, sep, <<>>)

IsNumeric(segment) ==
    segment # <<>> /\ \A i \in 1..Len(segment) : IsDigit(segment[i])

IsValidOctet(segment) == IsNumeric(segment) /\ DigitsValue(segment, 0) <= 255

\* isValidIPv4(text) / isValidAddress
IsValidIPv4(text) ==
    LET segments == Split(text, ".")
    IN  Len(segments) = 4 /\ \A i \in 1..4 : IsValidOctet(segments[i])

ParseOctets(text) == [i \in 1..4 |-> DigitsValue(Split(text, ".")[i], 0)]

Pow2(n) == IF n = 0 THEN 1 ELSE IF n = 1 THEN 2 ELSE IF n = 2 THEN 4
           ELSE IF n = 3 THEN 8 ELSE IF n = 4 THEN 16 ELSE IF n = 5 THEN 32
           ELSE IF n = 6 THEN 64 ELSE IF n = 7 THEN 128 ELSE 256

\* The bits of octet i (1..4) that a prefix of the given length leaves to the
\* host part.
HostBits(i, prefix) ==
    LET network == prefix - 8 * (i - 1)
    IN  IF network <= 0 THEN 8 ELSE IF network >= 8 THEN 0 ELSE 8 - network

\* cidrToRange(text) / parseCidr: <<>> for none, else <<[start, end]>> with
\* start = base & mask and end = start | ~mask, computed octet by octet.
CidrToRange(text) ==
    LET parts == Split(text, "/")
    IN  IF \/ Len(parts) # 2
           \/ ~IsValidIPv4(parts[1])
           \/ ~IsNumeric(parts[2])
           \/ DigitsValue(parts[2], 0) > 32
        THEN <<>>
        ELSE LET base == ParseOctets(parts[1])
                 prefix == DigitsValue(parts[2], 0)
                 start == [i \in 1..4 |->
                              base[i] - (base[i] % Pow2(HostBits(i, prefix)))]
                 end == [i \in 1..4 |-> start[i] + Pow2(HostBits(i, prefix)) - 1]
             IN  <<[start |-> IpString(start), end |-> IpString(end)]>>

\* The 32-bit value of a dotted quad (first octet below 128 in this model).
IpToInt(text) ==
    LET o == ParseOctets(text)
    IN  ((o[1] * 256 + o[2]) * 256 + o[3]) * 256 + o[4]

IntToIp(n) ==
    IpString(<<n \div 16777216, (n \div 65536) % 256, (n \div 256) % 256, n % 256>>)

\* enumerateRange(start, end): every address from start to end in ascending
\* order, none when start > end.
EnumerateRange(start, end) ==
    LET first == IpToInt(start)
        last == IpToInt(end)
    IN  [k \in 1..(last - first + 1) |-> IntToIp(first + k - 1)]

\* ------------------------------------------------------------ session
VARIABLES
    range,         \* useState mode, cidr, startIp, endIp
    hostList,      \* useMemo hostList: the addresses of the configured range
    ports,         \* useState ports
    timeoutMs,     \* useState timeoutMs
    pageProtocol,  \* window.location.protocol
    abortRef,      \* abortRef.current
    isScanning,    \* useState isScanning
    results,       \* useState results
    progress,      \* useState progress
    scans,         \* the handleScan invocations, in the order of their start
    workers,       \* the workers made by schedule(ip), in the order of launch
    hung,          \* a scheduler loop spins in the microtask queue for ever
    history,       \* history: what the handlers run so far have been
    probe          \* the single probe of the probe specification

\* The page's own state, without the history.
pageVars ==
    <<range, hostList, ports, timeoutMs, pageProtocol, abortRef, isScanning, results,
      progress, scans, workers, hung>>

sessionVars == <<pageVars, history>>

vars == <<sessionVars, probe>>

\* The addresses of the modelled network, as enumerateRange lists them:
\* 10.0.0.9, 10.0.0.10, ...
Network == [i \in 1..MaxHosts |-> IpString(<<10, 0, 0, 8 + i>>)]

\* The host lists a range can produce: the runs of consecutive addresses, and
\* the empty list.
HostLists ==
    {SubSeq(Network, a, b) : a \in 1..MaxHosts, b \in 0..MaxHosts}

\* Texts that are no dotted quad: no text, three segments, an octet above
\* 255, a segment that is no number.
InvalidAddressTexts ==
    { <<>>,
      <<"1", "0", ".", "0", ".", "0">>,
      IpString(<<10, 0, 0, 256>>),
      <<"1", "0", ".", "0", ".", "0", ".", "x">> }

\* Texts that are no CIDR block: no prefix, a prefix above 32, a prefix that
\* is no number, a base that is no dotted quad.
InvalidCidrTexts ==
    { Network[1],
      Network[1] \o <<"/", "3", "3">>,
      Network[1] \o <<"/", "x">>,
      IpString(<<10, 0, 0, 256>>) \o <<"/", "3", "1">>,
      <<"1", "0", ".", "0", ".", "0", "/", "3", "1">> }

\* CIDR blocks inside the modelled network: 10.0.0.9/32 and 10.0.0.10/31.
ValidCidrTexts ==
    { Network[1] \o <<"/", "3", "2">>, Network[2] \o <<"/", "3", "1">> }

\* The range inputs of a session: mode and the texts of the three fields.
RangeInputs ==
    {[mode |-> "cidr", cidr |-> c, startIp |-> Network[1], endIp |-> Network[1]] :
        c \in ValidCidrTexts \cup InvalidCidrTexts}
    \cup
    {[mode |-> "interval", cidr |-> <<>>, startIp |-> a, endIp |-> b] :
        a, b \in {Network[i] : i \in 1..MaxHosts} \cup InvalidAddressTexts}

\* const hostList = useMemo(...)
HostListMemo(input) ==
    IF input.mode = "cidr"
    THEN LET parsed == CidrToRange(input.cidr)
         IN  IF parsed = <<>> THEN <<>>
             ELSE EnumerateRange(parsed[1].start, parsed[1].end)
    ELSE IF ~IsValidIPv4(input.startIp) \/ ~IsValidIPv4(input.endIp) THEN <<>>
    ELSE EnumerateRange(input.startIp, input.endIp)

\* (mutant) the early return without its test of the port set.
NothingToScanHostsOnly(hosts, portList) == Len(hosts) = 0

\* if (hostList.length === 0 || ports.length === 0) return;
NothingToScan(hosts, portList) == Len(hosts) = 0 \/ Len(portList) = 0

\* The port table offered by the page (DEFAULT_PORTS), by ascending port.
PortTable ==
    <<[port |-> 80, protocol |-> "http"], [port |-> 443, protocol |-> "https"]>>

\* (mutant) the comparator with its operands swapped: b.port - a.port.
PortLessSwapped(a, b) == b.port - a.port < 0

\* (a, b) => a.port - b.port
PortLess(a, b) == a.port - b.port < 0

\* The comparator of setResults.
CompareHosts(a, b) ==
    IF a.reachable /\ ~b.reachable THEN -1
    ELSE IF ~a.reachable /\ b.reachable THEN 1
    ELSE LocaleCompareNumeric(a.ip, b.ip)

HostLess(a, b) == CompareHosts(a, b) < 0

\* cmp(a, b) < 0 for the comparator of the named sort.
Less(cmp, a, b) == IF cmp = "port" THEN PortLess(a, b) ELSE HostLess(a, b)

\* [...list].sort(cmp): Array.prototype.sort is stable.
RECURSIVE InsertSorted(_, _, _)
InsertSorted(cmp, sorted, x) ==
    IF sorted = <<>> THEN <<x>>
    ELSE IF Less(cmp, x, Head(sorted)) THEN <<x>> \o sorted
    ELSE <<Head(sorted)>> \o InsertSorted(cmp, Tail(sorted), x)

RECURSIVE ArraySort(_, _)
ArraySort(cmp, list) ==
    IF list = <<>> THEN <<>>
    ELSE InsertSorted(cmp, ArraySort(cmp, SubSeq(list, 1, Len(list) - 1)),
                      list[Len(list)])

SortPorts(list) == ArraySort("port", list)

SortHosts(list) == ArraySort("host", list)

\* (mutant) results.every(...) in the place of results.some(...).
ReachableEvery(portResults) ==
    \A i \in 1..Len(portResults) : portResults[i].status = "responsive"

\* results.some((entry) => entry.status === 'responsive')
Reachable(portResults) ==
    \E i \in 1..Len(portResults) : portResults[i].status = "responsive"

\* The HostScanResult probeHost returns (completedAt is not modelled; `scan`
\* is history: the handleScan invocation that launched the worker).
HostResult(w) ==
    [ip |-> w.ip, ports |-> w.results, reachable |-> Reachable(w.results),
     scan |-> w.scan]

\* (mutant) an update that replaces the entry of the same address.
SetResultsReplacing(prev, hostResult) ==
    SortHosts(Append(SelectSeq(prev, LAMBDA entry : entry.ip # hostResult.ip),
                     hostResult))

\* setResults((prev) => [...prev, hostResult].sort(...))
SetResults(prev, hostResult) == SortHosts(Append(prev, hostResult))

\* setProgress((prev) => ({ total: prev.total || hostList.length, ... }))
SetProgressStale(prev, hostResult, hosts) ==
    [total |-> Len(hosts),
     completed |-> 1,
     reachable |-> IF hostResult.reachable THEN 1 ELSE 0]

SetProgress(prev, hostResult, hosts) ==
    [total |-> IF prev.total # 0 THEN prev.total ELSE Len(hosts),
     completed |-> prev.completed + 1,
     reachable |-> prev.reachable + (IF hostResult.reachable THEN 1 ELSE 0)]

\* Promises: the worker of schedule(ip) and the promise worker.finally(...) makes.
WorkerPromise(w) == <<"worker", w>>

FinallyPromise(w) == <<"finally", w>>

\* Both promises of worker w settle when its async function returns.
Settled(ws, promise) == ws[promise[2]].settled

\* active.indexOf(p), 0 for -1.
IndexOf(active, p) ==
    IF \E i \in 1..Len(active) : active[i] = p
    THEN CHOOSE i \in 1..Len(active) :
            active[i] = p /\ \A j \in 1..(i - 1) : active[j] # p
    ELSE 0

\* The callback of worker.finally: active.splice(active.indexOf(worker), 1)
\* when the worker is found.
FinallyCallback(active, w) ==
    LET index == IndexOf(active, WorkerPromise(w))
    IN  IF index # 0
        THEN SubSeq(active, 1, index - 1) \o SubSeq(active, index + 1, Len(active))
        ELSE active

\* schedule(ip): the worker starts probeHost, which runs to the await of the
\* probe of the first port (the caller has just read abortRef.current as false
\* and orderedPorts is not empty), and the promise made by finally is pushed.
NewWorker(sid, ip) ==
    [scan |-> sid, ip |-> ip, results |-> <<>>, started |-> 1,
     sawAbort |-> FALSE, settled |-> FALSE]

\* (mutant) the launch loop taking addresses from the end: queue.pop().
RECURSIVE LaunchLoopPop(_, _, _)
LaunchLoopPop(sc, ws, sid) ==
    IF Len(sc.active) < concurrency /\ Len(sc.queue) > 0
    THEN LaunchLoopPop([sc EXCEPT !.queue = SubSeq(@, 1, Len(@) - 1),
                                  !.active = Append(@, FinallyPromise(Len(ws) + 1))],
                       Append(ws, NewWorker(sid, sc.queue[Len(sc.queue)])), sid)
    ELSE [scan |-> sc, workers |-> ws]

\* while (active.length < concurrency && queue.length > 0) schedule(queue.shift())
RECURSIVE LaunchLoop(_, _, _)
LaunchLoop(sc, ws, sid) ==
    IF Len(sc.active) < concurrency /\ Len(sc.queue) > 0
    THEN LaunchLoop([sc EXCEPT !.queue = Tail(@),
                               !.active = Append(@, FinallyPromise(Len(ws) + 1))],
                    Append(ws, NewWorker(sid, Head(sc.queue))), sid)
    ELSE [scan |-> sc, workers |-> ws]

\* handleScan from the test of its outer while loop to its next suspension.
\* An await of a promise that is already settled resumes in the same
\* microtask checkpoint; an iteration that launches nothing and does not
\* suspend leaves the loop's condition as it was, so the loop runs for ever
\* and no macrotask runs again (spin).
RECURSIVE SchedulerLoop(_, _, _, _)
SchedulerLoop(sc, ws, abort, sid) ==
    IF Len(sc.queue) > 0 /\ ~abort
    THEN LET l == LaunchLoop(sc, ws, sid)
             raceSettles ==
                \E i \in 1..Len(l.scan.active) : Settled(l.workers, l.scan.active[i])
         IN  IF ~raceSettles
             THEN [scan |-> [l.scan EXCEPT !.pc = "race", !.awaited = l.scan.active],
                   workers |-> l.workers, spin |-> FALSE, finished |-> FALSE]
             ELSE IF Len(l.workers) = Len(ws)
             THEN [scan |-> [l.scan EXCEPT !.pc = "spin", !.awaited = l.scan.active],
                   workers |-> l.workers, spin |-> TRUE, finished |-> FALSE]
             ELSE SchedulerLoop(l.scan, l.workers, abort, sid)
    ELSE IF \A i \in 1..Len(sc.active) : Settled(ws, sc.active[i])
         THEN [scan |-> [sc EXCEPT !.pc = "done", !.awaited = <<>>],
               workers |-> ws, spin |-> FALSE, finished |-> TRUE]
         ELSE [scan |-> [sc EXCEPT !.pc = "all", !.awaited = sc.active],
               workers |-> ws, spin |-> FALSE, finished |-> FALSE]

\* What a scan's suspended handleScan does when worker promises have settled:
\* Promise.race(awaited) resumes the loop, Promise.all(awaited) the end.
Resume(sc, ws, abort, sid) ==
    IF sc.pc = "race" /\ \E i \in 1..Len(sc.awaited) : Settled(ws, sc.awaited[i])
    THEN SchedulerLoop(sc, ws, abort, sid)
    ELSE IF sc.pc = "all" /\ \A i \in 1..Len(sc.awaited) : Settled(ws, sc.awaited[i])
    THEN [scan |-> [sc EXCEPT !.pc = "done", !.awaited = <<>>],
          workers |-> ws, spin |-> FALSE, finished |-> TRUE]
    ELSE [scan |-> sc, workers |-> ws, spin |-> FALSE, finished |-> FALSE]

NoProgress == [total |-> 0, completed |-> 0, reachable |-> 0]

IdleProbe ==
    [method |-> "none", timeoutMs |-> 0, start |-> 0, now |-> 0,
     call |-> <<>>, netPending |-> FALSE, first |-> <<>>]

\* The port selections togglePort can leave: the sub-lists of the port table.
\* History: `resets` counts the reset() calls since the last other handler
\* ran, `skipped` tells whether handleScan has returned early.
NoHistory == [resets |-> 0, skipped |-> FALSE]

PortLists ==
    {SelectSeq(PortTable, LAMBDA d : d.port \in chosen) :
        chosen \in SUBSET {PortTable[k].port : k \in 1..Len(PortTable)}}

\* The page is served over https, so that both strategies are in use: fetch
\* for the https port, the image load for the http port.
SessionInit ==
    /\ range \in RangeInputs
    /\ hostList = HostListMemo(range)
    /\ ports \in PortLists
    /\ timeoutMs = DEFAULT_TIMEOUT
    /\ pageProtocol = "https:"
    /\ abortRef = FALSE
    /\ isScanning = FALSE
    /\ results = <<>>
    /\ progress = NoProgress
    /\ scans = <<>>
    /\ workers = <<>>
    /\ hung = FALSE
    /\ history = NoHistory

Init ==
    /\ SessionInit
    /\ probe = IdleProbe

\* A click on the scan button (enabled unless isScanning): handleScan up to
\* its first suspension.
HandleScan ==
    /\ ~hung
    /\ ~isScanning
    /\ Len(scans) < MaxScans
    /\ IF NothingToScan(hostList, ports)
       THEN /\ history' = [resets |-> 0, skipped |-> TRUE]
            /\ UNCHANGED <<abortRef, isScanning, results, progress, scans, workers,
                           hung>>
       ELSE LET sid == Len(scans) + 1
                sc == [hostList |-> hostList, orderedPorts |-> SortPorts(ports),
                       timeoutMs |-> timeoutMs, queue |-> hostList,
                       active |-> <<>>, awaited |-> <<>>, pc |-> "start",
                       cancelled |-> FALSE]
                r == SchedulerLoop(sc, workers, FALSE, sid)
            IN  /\ Len(r.workers) * Len(ports) <= MaxProbes
                /\ abortRef' = FALSE
                /\ isScanning' = ~r.finished
                /\ results' = <<>>
                /\ progress' = [total |-> Len(hostList), completed |-> 0,
                                reachable |-> 0]
                /\ scans' = Append(scans, r.scan)
                /\ workers' = r.workers
                /\ hung' = r.spin
                /\ history' = [history EXCEPT !.resets = 0]
    /\ UNCHANGED <<range, hostList, ports, timeoutMs, pageProtocol, probe>>

\* reset()
ResetTogglingFlag ==
    /\ abortRef' = ~abortRef
    /\ isScanning' = FALSE
    /\ results' = <<>>
    /\ progress' = NoProgress

Reset ==
    /\ abortRef' = TRUE
    /\ isScanning' = FALSE
    /\ results' = <<>>
    /\ progress' = NoProgress

\* A click on the cancel button: if (isScanning) abortRef.current = true; reset().
\* (`cancelled` is history: the scans that had not finished when it was clicked.)
Cancel ==
    /\ ~hung
    /\ Reset
    /\ scans' = [s \in 1..Len(scans) |->
                    IF scans[s].pc = "done" THEN scans[s]
                    ELSE [scans[s] EXCEPT !.cancelled = TRUE]]
    /\ history' = [history EXCEPT !.resets = IF @ < MaxResets THEN @ + 1 ELSE @]
    /\ UNCHANGED <<range, hostList, ports, timeoutMs, pageProtocol, workers, hung, probe>>

\* The instants at which the session lets a probe's first event come: the
\* network answers one tick before the timeout, a timer runs on time. (Later
\* network events are the probe specification's matter.)
SessionElapsed(kind, timeout) ==
    IF kind \in {"abort", "timer"} THEN timeout ELSE timeout - 1

\* probeHost after a port's result is pushed: the for loop goes on to the next
\* descriptor unless there is none or abortRef.current is set.
NextPort(pushed, orderedPorts, abort) ==
    Len(pushed) < Len(orderedPorts) /\ ~abort

\* The probe a worker awaits settles with the event `kind`, or its promise
\* rejects: probeHost pushes the port's result and goes on to the next port, or leaves the loop and
\* returns; then the worker publishes the host's result, its promises settle
\* and its scan's handleScan resumes.
ProbeSettles(w, kind) ==
    /\ ~hung
    /\ ~workers[w].settled
    /\ LET wk == workers[w]
           sid == wk.scan
           sc == scans[sid]
           descriptor == sc.orderedPorts[wk.started]
           elapsed == SessionElapsed(kind, sc.timeoutMs)
       IN  /\ \/ kind = Throw
              \/ CanSettle(Method(descriptor, pageProtocol), kind, elapsed, sc.timeoutMs)
           /\ LET portResult ==
                     TryProbePort(descriptor, pageProtocol, kind, elapsed, sc.timeoutMs)
                  pushed == Append(wk.results, portResult)
              IN  IF NextPort(pushed, sc.orderedPorts, abortRef)
                  THEN /\ workers' = [workers EXCEPT ![w].results = pushed,
                                                     ![w].started = @ + 1]
                       /\ UNCHANGED <<isScanning, results, progress, scans, hung>>
                  ELSE LET done == [wk EXCEPT !.results = pushed,
                                              !.sawAbort =
                                                  Len(pushed) < Len(sc.orderedPorts)
                                                  /\ abortRef,
                                              !.settled = TRUE]
                           hostResult == HostResult(done)
                           ws == [workers EXCEPT ![w] = done]
                           r == Resume([sc EXCEPT !.active = FinallyCallback(@, w)],
                                       ws, abortRef, sid)
                       IN  /\ results' = SetResults(results, hostResult)
                           /\ progress' = SetProgress(progress, hostResult, sc.hostList)
                           /\ scans' = [scans EXCEPT ![sid] = r.scan]
                           /\ workers' = r.workers
                           /\ hung' = r.spin
                           /\ isScanning' = IF r.finished THEN FALSE ELSE isScanning
    /\ history' = [history EXCEPT !.resets = 0]
    /\ UNCHANGED <<range, hostList, ports, timeoutMs, pageProtocol, abortRef, probe>>

SomeProbeSettles ==
    \E w \in 1..Len(workers), kind \in FetchKinds \cup ImageKinds \cup {Throw} :
        ProbeSettles(w, kind)

Next ==
    \/ HandleScan
    \/ Cancel
    \/ SomeProbeSettles

Spec == Init /\ [][Next]_vars

\* ------------------------------------------------- one probe, event by event
\* A single call of probeViaFetch or probeViaImage with its clock: `start` is
\* performance.now() at the call, `call` the call's state, netPending whether
\* the network attempt has still to end, and `first` (history) the first
\* event that reached the call.
ProbeInit ==
    /\ range = [mode |-> "cidr", cidr |-> <<>>, startIp |-> Network[1],
                endIp |-> Network[1]]
    /\ hostList = HostListMemo(range)
    /\ ports = PortTable
    /\ timeoutMs = DEFAULT_TIMEOUT
    /\ pageProtocol = "https:"
    /\ abortRef = FALSE
    /\ isScanning = FALSE
    /\ results = <<>>
    /\ progress = NoProgress
    /\ scans = <<>>
    /\ workers = <<>>
    /\ hung = FALSE
    /\ history = NoHistory
    /\ \E method \in {"fetch", "image"}, t \in Timeouts, start \in 0..1 :
         probe = [method |-> method, timeoutMs |-> t, start |-> start, now |-> start,
                  call |-> IF method = "fetch" THEN FreshFetch ELSE FreshImage,
                  netPending |-> TRUE, first |-> <<>>]

ProbeElapsed == probe.now - probe.start

Noted(kind) ==
    IF probe.first = <<>> THEN <<[kind |-> kind, elapsed |-> ProbeElapsed]>>
    ELSE probe.first

\* Time passes.
Tick ==
    /\ ProbeElapsed < MaxNow
    /\ probe' = [probe EXCEPT !.now = @ + 1]
    /\ UNCHANGED sessionVars

\* The awaited fetch resolves, or rejects with a network error.
FetchSettles ==
    /\ probe.method = "fetch"
    /\ probe.netPending
    /\ \E kind \in {"resolve", "reject"} :
         probe' = [probe EXCEPT !.call = FetchEvent(@, kind, ProbeElapsed),
                                !.netPending = FALSE,
                                !.first = Noted(kind)]
    /\ UNCHANGED sessionVars

\* The timer of setTimeout(..., timeoutMs) runs: controller.abort() makes the
\* awaited fetch reject with an AbortError; the image probe calls finalize.
TimerFires ==
    /\ probe.call.timerArmed
    /\ ProbeElapsed >= probe.timeoutMs
    /\ probe' =
         IF probe.method = "fetch"
         THEN [probe EXCEPT !.call = FetchEvent(@, "abort", ProbeElapsed),
                            !.netPending = FALSE,
                            !.first = Noted("abort")]
         ELSE [probe EXCEPT !.call = ImageOnTimer(@, ProbeElapsed),
                            !.first = Noted("timer")]
    /\ UNCHANGED sessionVars

\* The image loads.
ImageLoads ==
    /\ probe.method = "image"
    /\ probe.netPending
    /\ probe' = [probe EXCEPT !.call = ImageOnLoad(@, ProbeElapsed),
                              !.netPending = FALSE,
                              !.first = Noted("load")]
    /\ UNCHANGED sessionVars

\* The image fails to load.
ImageErrors ==
    /\ probe.method = "image"
    /\ probe.netPending
    /\ probe' = [probe EXCEPT !.call = ImageOnError(@, ProbeElapsed, probe.timeoutMs),
                              !.netPending = FALSE,
                              !.first = Noted("error")]
    /\ UNCHANGED sessionVars

ProbeNext ==
    \/ Tick
    \/ FetchSettles
    \/ TimerFires
    \/ ImageLoads
    \/ ImageErrors

ProbeSpec == ProbeInit /\ [][ProbeNext]_vars

\* The value the probe's promise has settled with, <<>> while it is pending.
ProbeValue ==
    IF probe.method = "fetch" THEN probe.call.returned ELSE probe.call.resolved

\* ------------------------------------------------------------- claims
\* C5: with the fetch strategy, a probe whose attempt settles (by success or
\* by a network error) before the timeout timer runs is responsive with the
\* elapsed time as latency; a probe ended by the timer is timeout with null.
C5_FetchSettlementIsResponsive ==
    (probe.method = "fetch" /\ probe.first # <<>>) =>
        LET e == probe.first[1]
        IN  ProbeValue =
                <<IF e.kind \in {"resolve", "reject"}
                  THEN [status |-> "responsive", latency |-> Num(e.elapsed)]
                  ELSE [status |-> "timeout", latency |-> Null]>>

\* What the first event of an image probe should give.
C6_Expected(e, timeout) ==
    IF e.kind = "load" \/ (e.kind = "error" /\ e.elapsed < timeout)
    THEN [status |-> "responsive", latency |-> Num(e.elapsed)]
    ELSE [status |-> "timeout", latency |-> Null]

\* C6: the image probe resolves exactly once, with the outcome of the first of
\* load, error and timer: a load, or an error before the timeout, is
\* responsive with the elapsed time; the timer, or an error at or after the
\* timeout, is timeout with null; later events change nothing.
C6_ImageFirstEventDecides ==
    probe.method = "image" =>
        IF probe.first = <<>>
        THEN probe.call.resolved = <<>> /\ probe.call.calls = 0
        ELSE /\ probe.call.resolved = <<C6_Expected(probe.first[1], probe.timeoutMs)>>
             /\ probe.call.calls = 1

\* C6 witness: the timer ran first and the image's own event came after it.
C6_Witness ==
    /\ probe.method = "image"
    /\ probe.first # <<>>
    /\ probe.first[1].kind = "timer"
    /\ ~probe.netPending

\* The workers of scan s, and those of them still in flight.
WorkersOf(s) == {w \in 1..Len(workers) : workers[w].scan = s}

InFlight == {w \in 1..Len(workers) : ~workers[w].settled}

\* Scan s can go on: one of its workers awaits a probe and the event loop
\* still delivers the probe's settlement (the guard of ProbeSettles).
CanGoOn(s) == ~hung /\ WorkersOf(s) \cap InFlight # {}

\* C1: every scan that handleScan started reports finished in the end (its
\* loop exits, its workers are awaited, isScanning is set to false), for host
\* lists of any length and with or without a cancellation, given that every
\* probe settles: a scan that has not finished always has a probe whose
\* settlement takes it further.
C1_EveryScanFinishes ==
    \A s \in 1..Len(scans) : scans[s].pc = "done" \/ CanGoOn(s)

\* C2: in a scan that is not cancelled, a completion that leaves the queue
\* non-empty makes the scheduler launch from the queue, so that every address
\* of the host list has its result in the collection once no host scan of
\* the scan is in flight any more.
C2_CompletionRefillsPool ==
    \A s \in 1..Len(scans) :
        ( /\ s = Len(scans')
          /\ ~scans'[s].cancelled
          /\ Len(scans[s].queue) > 0
          /\ \E w \in WorkersOf(s) : ~workers[w].settled /\ workers'[w].settled )
        => Len(scans'[s].queue) < Len(scans[s].queue)

C2_EveryHostHasAResult ==
    LET s == Len(scans)
    IN  (s > 0 /\ ~scans[s].cancelled /\ WorkersOf(s) \cap InFlight = {}) =>
            \A k \in 1..Len(scans[s].hostList) :
                \E i \in 1..Len(results) : results[i].ip = scans[s].hostList[k]

\* C2 (both parts): every completion that leaves addresses queued refills the
\* pool, and every address of an uncancelled scan gets its result.
C2_AllHostsScanned ==
    [][C2_CompletionRefillsPool]_vars /\ []C2_EveryHostHasAResult

\* C3: the number of host scans in flight never exceeds the cap.
C3_InFlightWithinCap == Cardinality(InFlight) <= concurrency

\* C4: once cancellation is signalled the cancelled scan launches no host
\* scan, and all its launched host scans have produced their result when
\* isScanning becomes false.
C4_CancelDrainsBeforeFinished ==
    [][ /\ \A s \in 1..Len(scans) :
              scans[s].cancelled =>
                  \A w \in 1..Len(workers') : workers'[w].scan = s => w <= Len(workers)
        /\ (isScanning /\ ~isScanning') =>
              \A w \in 1..Len(workers') :
                  scans'[workers'[w].scan].cancelled => workers'[w].settled ]_vars

\* The scan whose progress the counters show: the one started last.
CurrentScan == Len(scans)

\* (abortRef is set by reset alone, and a scan's start clears it.)
\* C7: during a scan that is not reset, the counters are exact: completed is
\* the number of its host scans that have completed, reachable the number of
\* those found reachable, total the length of its host list.
C7_CountersAreExact ==
    (CurrentScan > 0 /\ ~abortRef) =>
        LET mine == {w \in WorkersOf(CurrentScan) : workers[w].settled}
        IN  /\ progress.completed = Cardinality(mine)
            /\ progress.reachable =
                 Cardinality({w \in mine :
                                \E k \in 1..Len(workers[w].results) :
                                    workers[w].results[k].status = "responsive"})
            /\ progress.total = Len(scans[CurrentScan].hostList)

\* The four octets of a dotted quad, as numbers.
RECURSIVE C8_Octets(_, _)
C8_Octets(text, acc) ==
    IF text = <<>> THEN <<acc>>
    ELSE IF Head(text) = "." THEN <<acc>> \o C8_Octets(Tail(text), 0)
    ELSE C8_Octets(Tail(text), acc * 10 + DigitValue(Head(text)))

\* a is not after b, octet by octet.
C8_AddressLeq(a, b) ==
    LET x == C8_Octets(a, 0)
        y == C8_Octets(b, 0)
    IN  \/ x = y
        \/ \E k \in 1..4 : x[k] < y[k] /\ \A j \in 1..(k - 1) : x[j] = y[j]

\* C8: the result collection is always ordered: the reachable hosts first and,
\* within each class, the addresses ascending octet by octet as numbers.
C8_ResultsOrdered ==
    \A i, j \in 1..Len(results) :
        i < j =>
            /\ results[j].reachable => results[i].reachable
            /\ results[i].reachable = results[j].reachable =>
                   C8_AddressLeq(results[i].ip, results[j].ip)

\* C8 witness: 10.0.0.9 stands before 10.0.0.10 in one class, and the
\* collection holds both classes.
C8_Witness ==
    /\ \E i, j \in 1..Len(results) :
          /\ i < j
          /\ results[i].reachable = results[j].reachable
          /\ results[i].ip = IpString(<<10, 0, 0, 9>>)
          /\ results[j].ip = IpString(<<10, 0, 0, 10>>)
    /\ \E i, j \in 1..Len(results) : results[i].reachable /\ ~results[j].reachable

\* C9: a host result is reachable exactly when one of its port results is
\* responsive; a result without any port result is unreachable.
C9_ReachableIffResponsive ==
    /\ \A i \in 1..Len(results) :
          results[i].reachable <=>
              \E k \in 1..Len(results[i].ports) :
                  results[i].ports[k].status = "responsive"
    /\ ~HostResult([ip |-> Network[1], results |-> <<>>, scan |-> 1]).reachable

\* C9 witness: a reachable host with a port that timed out, and a partial
\* result (fewer ports than configured) that is unreachable.
C9_Witness ==
    /\ \E i \in 1..Len(results) :
          /\ results[i].reachable
          /\ \E k \in 1..Len(results[i].ports) : results[i].ports[k].status = "timeout"
    /\ \E i \in 1..Len(results) :
          /\ ~results[i].reachable
          /\ Len(results[i].ports) < Len(scans[results[i].scan].orderedPorts)

\* C10: within a host scan the ports are probed one at a time, in ascending
\* order; the result's port list is a prefix of the ascending list of the
\* configured ports: all of it when the flag was never seen set, a proper
\* prefix otherwise.
C10_PortsInOrder ==
    \A w \in 1..Len(workers) :
        LET wk == workers[w]
            configured == scans[wk.scan].orderedPorts
        IN  /\ Len(configured) = Len(ports)
            /\ \A k \in 1..Len(ports) : \E m \in 1..Len(configured) : configured[m] = ports[k]
            /\ \A k \in 1..(Len(configured) - 1) : configured[k].port < configured[k + 1].port
            /\ wk.started = Len(wk.results) + (IF wk.settled THEN 0 ELSE 1)
            /\ Len(wk.results) <= Len(configured)
            /\ \A k \in 1..Len(wk.results) : wk.results[k].port = configured[k].port
            /\ wk.settled =>
                  IF wk.sawAbort THEN Len(wk.results) < Len(configured)
                  ELSE Len(wk.results) = Len(configured)

\* C10 witness: one host scan returned a proper, non-empty prefix and another
\* the whole list of two ports.
C10_Witness ==
    /\ \E w \in 1..Len(workers) :
          /\ workers[w].settled
          /\ workers[w].sawAbort
          /\ Len(workers[w].results) = 1
    /\ \E w \in 1..Len(workers) :
          /\ workers[w].settled
          /\ ~workers[w].sawAbort
          /\ Len(workers[w].results) = 2

\* C11: once cancellation is signalled, a host scan launched before the signal
\* starts no probe of a further port, also when a new scan clears the flag
\* while the host scan waits on its current probe.
C11_NoFurtherPortAfterCancel ==
    [][\A w \in 1..Len(workers) :
          scans[workers[w].scan].cancelled =>
              workers'[w].started = workers[w].started]_vars

\* What C12 says of the step in which worker w's probePort promise rejects.
C12_Caught(w) ==
    LET wk == workers[w]
        sid == wk.scan
        sc == scans[sid]
        descriptor == sc.orderedPorts[wk.started]
        k == Len(wk.results) + 1
    IN  /\ Len(workers'[w].results) = k
        /\ workers'[w].results[k] =
               [port |-> descriptor.port, protocol |-> descriptor.protocol,
                status |-> "timeout", latencyMs |-> Null, method |-> "image"]
        /\ IF k < Len(sc.orderedPorts) /\ ~abortRef
           THEN /\ ~workers'[w].settled
                /\ workers'[w].started = wk.started + 1
           ELSE /\ workers'[w].settled
                /\ \E i \in 1..Len(results') :
                       /\ results'[i].ip = wk.ip
                       /\ results'[i].scan = sid
                       /\ results'[i].ports = workers'[w].results
        /\ ( /\ workers'[w].settled
             /\ Len(scans'[sid].queue) = 0
             /\ (WorkersOf(sid) \cap InFlight)' = {} )
           => scans'[sid].pc = "done"

C13_ResetState ==
    /\ abortRef
    /\ ~isScanning
    /\ results = <<>>
    /\ progress = NoProgress

\* C13: reset() sets the flag and clears isScanning, results and progress in
\* one step, and is idempotent: a reset() that follows a reset() leaves the
\* page's state as it is.
C13_ResetIdempotentAtomic ==
    [][Cancel => /\ C13_ResetState'
                 /\ history.resets >= 1 => UNCHANGED pageVars]_vars

\* reset() has run twice in a row while a host scan was in flight.
C13_Witness ==
    /\ history.resets = 2
    /\ C13_ResetState
    /\ InFlight # {}

\* C14: a scan start sets progress to {host count, 0, 0}, a reset to {0, 0, 0},
\* and no other step decreases total, completed or reachable.
C14_CountersMonotone ==
    [][IF Cancel
       THEN progress' = NoProgress
       ELSE IF Len(scans') > Len(scans)
       THEN progress' = [total |-> Len(hostList), completed |-> 0, reachable |-> 0]
       ELSE /\ progress'.total >= progress.total
            /\ progress'.completed >= progress.completed
            /\ progress'.reachable >= progress.reachable]_vars

\* Two host scans have completed since the last scan start, one of them
\* reachable.
C14_Witness ==
    /\ Len(scans) >= 1
    /\ ~abortRef
    /\ progress.total = Len(hostList)
    /\ progress.completed = 2
    /\ progress.reachable = 1

\* The range input is invalid: in CIDR mode a text that is no CIDR block, in
\* interval mode a start or an end that is no dotted quad.
C15_InvalidInput ==
    IF range.mode = "cidr" THEN range.cidr \in InvalidCidrTexts
    ELSE range.startIp \in InvalidAddressTexts \/ range.endIp \in InvalidAddressTexts

\* C15: an invalid range input gives the empty host list, and handleScan with
\* an empty host list or an empty port set changes nothing of the page's
\* state: flag, isScanning, results and progress stay and no host scan is
\* launched.
C15_InvalidInputScansNothing ==
    /\ [](C15_InvalidInput => hostList = <<>>)
    /\ [][(HandleScan /\ (Len(hostList) = 0 \/ Len(ports) = 0))
              => UNCHANGED pageVars]_vars

\* handleScan has returned early on the empty host list of an invalid input,
\* after a reset: the flag is still set.
C15_Witness ==
    /\ C15_InvalidInput
    /\ hostList = <<>>
    /\ Len(ports) > 0
    /\ history.skipped
    /\ history.resets = 0
    /\ abortRef

\* handleScan has returned early on the empty port set with a host list that
\* is not empty.
C15_WitnessNoPorts ==
    /\ Len(hostList) > 0
    /\ ports = <<>>
    /\ history.skipped
    /\ workers = <<>>

\* C16: the active set of a scan holds exactly the promises of its launched
\* host scans that have not settled (a settling host scan removes its own),
\* and is empty when the scan reports finished.
C16_ActiveIsInFlight ==
    \A s \in 1..Len(scans) :
        /\ {scans[s].active[i] : i \in 1..Len(scans[s].active)} =
               {FinallyPromise(w) : w \in WorkersOf(s) \cap InFlight}
        /\ scans[s].pc = "done" => Len(scans[s].active) = 0

\* The host scans scan s has launched, in the order of their launch.
C17_Launched(s) == SelectSeq(workers, LAMBDA wk : wk.scan = s)

\* C17: a scan launches its host scans in the order of the address list, each
\* address at most once (the launched addresses are a prefix of the list, the
\* queue is the rest), and a host scan probes the ports in order, each at most
\* once: no address and no port is tried again.
C17_FifoOncePerPair ==
    /\ [](\A s \in 1..Len(scans) :
            LET launched == C17_Launched(s)
                hosts == scans[s].hostList
            IN  /\ Len(launched) <= Len(hosts)
                /\ \A k \in 1..Len(launched) : launched[k].ip = hosts[k]
                /\ \A j, k \in 1..Len(launched) :
                       launched[j].ip = launched[k].ip => j = k
                /\ scans[s].queue = SubSeq(hosts, Len(launched) + 1, Len(hosts))
                /\ \A k \in 1..Len(launched) :
                       LET wk == launched[k]
                       IN  /\ wk.started <= Len(scans[s].orderedPorts)
                           /\ Len(wk.results) =
                                  IF wk.settled THEN wk.started ELSE wk.started - 1
                           /\ \A p \in 1..Len(wk.results) :
                                  wk.results[p].port = scans[s].orderedPorts[p].port)
    /\ [][\A w \in 1..Len(workers) :
              /\ workers'[w].ip = workers[w].ip
              /\ workers'[w].scan = workers[w].scan
              /\ workers'[w].started \in {workers[w].started, workers[w].started + 1}
              /\ workers[w].settled => workers'[w] = workers[w]]_vars

\* A scan that has launched two host scans and still has an address queued,
\* one host scan having probed both ports.
C17_Witness ==
    \E s \in 1..Len(scans) :
        /\ Len(C17_Launched(s)) = 2
        /\ Len(scans[s].queue) = 1
        /\ \E w \in WorkersOf(s) : Len(workers[w].results) = 2

\* C18: the progress counters count the result collection: completed is the
\* number of its entries and reachable the number of its reachable entries.
C18_CountersCountResults ==
    /\ progress.completed = Len(results)
    /\ progress.reachable =
           Cardinality({i \in 1..Len(results) : results[i].reachable})

\* Two entries, one reachable, that came from host scans of different scans.
C18_Witness ==
    /\ Len(results) = 2
    /\ progress.completed = 2
    /\ \E i, j \in 1..Len(results) :
           /\ results[i].scan # results[j].scan
           /\ results[i].reachable
           /\ ~results[j].reachable

\* C19: from a reset() until the next scan starts (the flag is set exactly in
\* between) the results stay empty and progress stays {0, 0, 0}: host scans
\* that complete in between add nothing.
C19_ResetStateStays ==
    abortRef => results = <<>> /\ progress = NoProgress

\* C20: the results hold at most one entry per address, and every entry was
\* produced by a host scan of the scan started last.
C20_OneEntryPerAddressOfLastScan ==
    /\ \A i, j \in 1..Len(results) : results[i].ip = results[j].ip => i = j
    /\ \A i \in 1..Len(results) : results[i].scan = Len(scans)

\* C21: in every state the progress counters are ordered:
\* reachable <= completed <= total.
C21_CountersOrdered ==
    /\ progress.reachable <= progress.completed
    /\ progress.completed <= progress.total

====
